---- MODULE Spec2Model ----
(***************************************************************************)
(* One pass of handle_image of the PNM autocontrast programs               *)
(* (src/autocontrast.cpp and src/image.cpp): parallel histogram build,     *)
(* border (threshold) scans, remap table, parallel application.            *)
(*                                                                         *)
(* Arrays keep the code's 0-based indices: image is a function on          *)
(* 0..colorwise_size-1, freq / tmp_freq / mapping are functions on 0..255. *)
(* A float is kept exactly: coeff and needed_borders are numerators over   *)
(* CoeffDen = 2^25, the scale factor tmp is a 24-bit mantissa with a       *)
(* binary exponent, and every float operation rounds to 24 significant     *)
(* bits (round to nearest, ties to even) as IEEE-754 binary32 does.        *)
(***************************************************************************)
EXTENDS Integers, FiniteSets, Sequences, TLC

VARIABLES
    driver,         \* which program runs the pass: "autocontrast" or "image"
    width,          \* int width, as read from the header
    height,         \* int height, as read from the header
    colored,        \* second_indentifier == '6'
    size,           \* width * height
    coeff,          \* float coeff, as a numerator over CoeffDen
    THREADS_COUNT,  \* omp_get_max_threads()
    image0,         \* the sample buffer as read from the input (history)
    image,          \* the sample buffer (image / raw_image)
    freq,           \* size_t freq[256]
    tmp_freq,       \* each worker's size_t tmp_freq[256]
    pixel_index,    \* each worker's loop variable of the counting loop
    wpc,            \* each worker's position in the parallel region
    lock,           \* the worker inside "#pragma omp critical", or NoWorker
    pc,             \* the position of the pass
    source_min,     \* int source_min
    source_max,     \* int source_max
    scans,          \* what the two border scans did (history)
    mapping,        \* uint8_t mapping[256]
    fp_fault,       \* floating-point faults raised while building mapping
    todo,           \* iterations of the "omp parallel for" not yet executed
    argv,           \* main's argv: a sequence of strings (of characters)
    nthreads,       \* what omp_get_max_threads() returns
    mpc,            \* the position of main
    exit_status,    \* the status main returned
    diag,           \* the last error message written to cout
    reported,       \* number of error messages written to cout
    errors,         \* number of handle_image calls that returned early
    calls           \* the input paths handle_image was called with (history)

vars == <<driver, width, height, colored, size, coeff, THREADS_COUNT,
          image0, image, freq,
          tmp_freq, pixel_index, wpc, lock, pc, source_min, source_max,
          scans, mapping, fp_fault, todo, argv, nthreads, mpc, exit_status,
          diag, reported, errors, calls>>

----------------------------------------------------------------------------
(* Bounds of the model *)

MaxBytes == 3

MaxThreads == 3

\* the sample values a buffer is drawn from
Samples == {0, 10, 255}

----------------------------------------------------------------------------
(* Program constants *)

\* number of histogram bins / table entries: freq[256], mapping[256]
Bins == 256

\* largest sample value: 255.0, min(255, ...), source_max = 255
MaxValue == 255

\* float has 24 significant bits; Mant == 2^24
Mant == 16777216

\* denominator of the float numerators coeff and needed_borders: 2^25
CoeffDen == 33554432

\* int is 32 bits wide: INT_MAX and INT_MIN
IntMax == 2147483647

IntMin == (0 - IntMax) - 1

\* coefficients, as floats: 0, 0.4f (= 13421773 / 2^25), 0.5, 0.75, 3.0
Coeffs == {0, 13421773, 16777216, 25165824, 100663296}

\* int source_min, source_max; uint8_t mapping[256]: declared, not yet set
Uninit == -1000

NoWorker == -1

BinIdx == 0 .. (Bins - 1)

ZeroBins == [v \in BinIdx |-> 0]

----------------------------------------------------------------------------
(* Integer helpers *)

Min2(a, b) == IF a < b THEN a ELSE b

Max2(a, b) == IF a > b THEN a ELSE b

Abs(a) == IF a < 0 THEN 0 - a ELSE a

RECURSIVE BitLen(_)
\* number of binary digits of n >= 0
BitLen(n) == IF n = 0 THEN 0 ELSE 1 + BitLen(n \div 2)

\* n / 2^s rounded to the nearest integer, ties to even
RoundShift(n, s) ==
    IF s = 0 THEN n
    ELSE LET q == n \div (2 ^ s)
             r == n % (2 ^ s)
             half == 2 ^ (s - 1)
         IN  IF r > half \/ (r = half /\ q % 2 = 1) THEN q + 1 ELSE q

\* n >= 0 rounded to 24 significant bits (the value of a float product or
\* conversion whose exact result is n)
FloatRound(n) ==
    LET s == Max2(0, BitLen(n) - 24)
    IN  RoundShift(n, s) * (2 ^ s)

RECURSIVE SumOver(_, _)
\* the sum of f over the indices in s
SumOver(f, s) ==
    IF s = {} THEN 0
    ELSE LET i == CHOOSE x \in s : TRUE
         IN  f[i] + SumOver(f, s \ {i})

\* f[a] + ... + f[b]: the sum over the indices whose term is not 0
SumRange(f, a, b) == SumOver(f, {i \in a .. b : f[i] # 0})

\* f[0] + ... + f[v]
SumBins(f, v) == SumRange(f, 0, v)

\* f[v] + ... + f[255]
SumBinsFrom(f, v) == SumRange(f, v, MaxValue)

\* number of indices of buffer b that hold sample value v
CountOf(b, v) == Cardinality({i \in DOMAIN b : b[i] = v})

----------------------------------------------------------------------------
(* int arithmetic: 32 bits, two's complement. The mathematical result of   *)
(* a multiplication may lie outside INT_MIN..INT_MAX: IntMulOverflows says *)
(* whether it does, and IntMul gives the result modulo 2^32, which is what *)
(* the multiply instruction leaves.                                        *)

\* 2^16: an int is two halves of 16 bits, x = Hi(x) * 2^16 + Lo(x) with
\* 0 <= Lo(x) < 2^16 and -2^15 <= Hi(x) < 2^15
HalfWord == 2 ^ 16

Lo(x) == x % HalfWord

Hi(x) == x \div HalfWord

\* the int whose halves are the 16-bit patterns h and l (0 <= h, l < 2^16)
FromHalves(h, l) ==
    (IF h >= HalfWord \div 2 THEN h - HalfWord ELSE h) * HalfWord + l

\* a * b modulo 2^32, from the halves of a and b:
\* a * b = Hi(a) * Hi(b) * 2^32 + (Hi(a) * Lo(b) + Lo(a) * Hi(b)) * 2^16
\*         + Lo(a) * Lo(b),
\* Lo(a) * Lo(b) being formed from the two bytes of Lo(b)
IntProduct(a, b) ==
    LET u == Lo(a) * (Lo(b) \div 256)
        v == (u % 256) * 256 + Lo(a) * (Lo(b) % 256)
        l == v % HalfWord
        c == (u \div 256) + (v \div HalfWord)
        h == (Lo(Hi(a) * Lo(b)) + Lo(Lo(a) * Hi(b)) + c) % HalfWord
    IN  FromHalves(h, l)

\* operands whose product is below 2^30
SmallOperand(x) == x > 0 - (2 ^ 15) /\ x < 2 ^ 15

\* the int the multiplication a * b leaves
IntMul(a, b) ==
    IF SmallOperand(a) /\ SmallOperand(b) THEN a * b ELSE IntProduct(a, b)

\* x * y = 2^31, for x, y > 0
ProductIsTwoTo31(x, y) ==
    y > 1 /\ IntMax % y = y - 1 /\ x = (IntMax \div y) + 1

\* the mathematical product a * b is not an int (signed overflow)
IntMulOverflows(a, b) ==
    IF a = 0 \/ b = 0 THEN FALSE
    ELSE IF a = IntMin THEN b # 1
    ELSE IF b = IntMin THEN a # 1
    ELSE LET x == Abs(a)
             y == Abs(b)
         IN  /\ x > IntMax \div y
             /\ ~((a < 0) # (b < 0) /\ ProductIsTwoTo31(x, y))

\* n / t for t > 0: the quotient truncated toward zero
IntDiv(n, t) ==
    LET q == n \div t
    IN  IF n < 0 /\ n % t # 0 THEN q + 1 ELSE q

----------------------------------------------------------------------------
(* Sizes and the partition of the buffer into blocks *)

\* autocontrast.cpp: colorwise_size = (colored ? 3 * size : size);
\* image.cpp always works on size * 3 bytes
ColorwiseSize(drv, col, sz) ==
    IF drv = "image" \/ col THEN IntMul(3, sz) ELSE sz

colorwise_size == ColorwiseSize(driver, colored, size)

\* int thread_block_size = colorwise_size / THREADS_COUNT
ThreadBlockSize(n, t) == IntDiv(n, t)

thread_block_size == ThreadBlockSize(colorwise_size, THREADS_COUNT)

Workers == 0 .. (THREADS_COUNT - 1)

\* start = thread_block_size * cur_thread_num
BlockStart(w) == IntMul(thread_block_size, w)

\* end = thread_block_size * (cur_thread_num + 1)
BlockEnd(w) == IntMul(thread_block_size, w + 1)

\* (mutant) the remainder loop is left out: it starts at the end
RemainderStartSkipped(n, t) == n

\* first index of the single-threaded loop after the parallel region
RemainderStart(n, t) == IntMul(ThreadBlockSize(n, t), t)

\* how often one iteration of the remainder loop increments its bin:
\* once in autocontrast.cpp, once per colour (3 times) in image.cpp
RemainderReps(drv) == IF drv = "image" THEN 3 ELSE 1

RECURSIVE RemainderLoop(_, _, _, _, _)
\* for (pixel_index = pi; pixel_index < n; ++pixel_index) ++freq[img[..]]
RemainderLoop(fr, img, pi, n, reps) ==
    IF pi < n
    THEN RemainderLoop([fr EXCEPT ![img[pi]] = @ + reps], img, pi + 1, n, reps)
    ELSE fr

\* (mutant) the merge assigns instead of adding: freq[i] = tmp_freq[i]
MergeBinsOverwrite(fr, tf) == [v \in BinIdx |-> tf[v]]

\* freq[i] += tmp_freq[i] for all 256 bins
MergeBins(fr, tf) == [v \in BinIdx |-> fr[v] + tf[v]]

----------------------------------------------------------------------------
(* Border scans *)

\* float needed_borders = coeff * size, as a numerator over CoeffDen
NeededBorders(c, sz) == FloatRound(c * sz)

\* (mutant) the comparison is >= instead of >
ExceedsNeededOrEqual(pref, need) == FloatRound(pref) * CoeffDen >= need

\* (float) pref_summ > needed_borders
ExceedsNeeded(pref, need) == FloatRound(pref) * CoeffDen > need

\* (mutant) the upward scan stops one bin early
MinScanEndShort(drv) == MaxValue - 1

\* (mutant) autocontrast.cpp keeps the bound of image.cpp
MinScanEndOver(drv) == MaxValue + 1

\* loop bound of the upward scan: source_min < 255 in autocontrast.cpp,
\* source_min < 256 in image.cpp
MinScanEnd(drv) == IF drv = "image" THEN MaxValue + 1 ELSE MaxValue

\* loop bound of the downward scan: source_max > 0 in autocontrast.cpp,
\* source_max >= 0 in image.cpp
MaxScanEnd(drv) == IF drv = "image" THEN 0 - 1 ELSE 0

\* the loop variables before the first iteration; rd_lo and rd_hi are the
\* lowest and highest index of freq read so far (rd_lo > rd_hi: none yet)
ScanStart(v0) ==
    [v |-> v0, pref_summ |-> 0, crossed |-> FALSE,
     rd_lo |-> Bins, rd_hi |-> 0 - 1]

\* freq[v]; a read outside the array is recorded by the scan (rd_lo, rd_hi)
\* and yields no count
ReadBin(fr, v) == IF v >= 0 /\ v < Bins THEN fr[v] ELSE 0

\* (mutant) the break comes after the loop variable has moved on
ScanStepBreakLate(fr, need, dir, st) ==
    LET p == st.pref_summ + ReadBin(fr, st.v)
    IN  [v |-> st.v + dir,
         pref_summ |-> IF ExceedsNeeded(p, need) THEN st.pref_summ ELSE p,
         crossed |-> ExceedsNeeded(p, need),
         rd_lo |-> Min2(st.rd_lo, st.v), rd_hi |-> Max2(st.rd_hi, st.v)]

\* one iteration of either scan, with its increment dir of the loop variable:
\*   pref_summ += freq[v];
\*   if ((float) pref_summ > needed_borders) { pref_summ -= freq[v]; break; }
ScanStep(fr, need, dir, st) ==
    LET p == st.pref_summ + ReadBin(fr, st.v)
        lo == Min2(st.rd_lo, st.v)
        hi == Max2(st.rd_hi, st.v)
    IN  IF ExceedsNeeded(p, need)
        THEN [v |-> st.v, pref_summ |-> p - ReadBin(fr, st.v),
              crossed |-> TRUE, rd_lo |-> lo, rd_hi |-> hi]
        ELSE [v |-> st.v + dir, pref_summ |-> p, crossed |-> FALSE,
              rd_lo |-> lo, rd_hi |-> hi]

RECURSIVE ScanLoop(_, _, _, _, _)
\* the next n iterations of a scan, one after the other, from the loop
\* variables st; after the break no iteration runs. (The n iterations are
\* run as the first half followed by the second half.)
ScanLoop(fr, need, dir, n, st) ==
    IF st.crossed \/ n <= 0 THEN st
    ELSE IF n = 1 THEN ScanStep(fr, need, dir, st)
    ELSE ScanLoop(fr, need, dir, n - (n \div 2),
                  ScanLoop(fr, need, dir, n \div 2, st))

\* for (pref_summ = 0, source_min = 0; source_min < end; ++source_min) {...}
ScanMin(drv, fr, need) ==
    ScanLoop(fr, need, 1, MinScanEnd(drv) - 0, ScanStart(0))

\* for (pref_summ = 0, source_max = 255; source_max > end; --source_max) {...}
ScanMax(drv, fr, need) ==
    ScanLoop(fr, need, 0 - 1, MaxValue - MaxScanEnd(drv), ScanStart(MaxValue))

----------------------------------------------------------------------------
(* The remap table *)

\* n / a rounded to the nearest integer, ties to even (n >= 0, a > 0)
DivRound(n, a) ==
    LET q == n \div a
        r == n % a
    IN  IF 2 * r > a \/ (2 * r = a /\ q % 2 = 1) THEN q + 1 ELSE q

\* 2 * n / a rounded to the nearest integer, ties to even, computed
\* without forming 2 * n
DivRoundTwice(n, a) ==
    LET q1 == n \div a
        r1 == n % a
        q == 2 * q1 + ((2 * r1) \div a)
        r == (2 * r1) % a
    IN  IF 2 * r > a \/ (2 * r = a /\ q % 2 = 1) THEN q + 1 ELSE q

\* float tmp = (float) 255.0 / (source_max - source_min):
\* infinite for d = 0, else |tmp| = m * 2^(e - 23) with 2^23 <= m < 2^24
FloatTmp(d) ==
    IF d = 0 THEN [kind |-> "inf", neg |-> FALSE, m |-> 0, e |-> 0]
    ELSE
    LET a == Abs(d)
        e0 == IF a > MaxValue THEN 0 - 1 ELSE BitLen(MaxValue \div a) - 1
        m0 == IF e0 < 0
              THEN DivRoundTwice(MaxValue * (Mant \div 2), a)
              ELSE DivRound(MaxValue * (2 ^ (23 - e0)), a)
    IN  IF m0 = Mant
        THEN [kind |-> "finite", neg |-> d < 0, m |-> Mant \div 2, e |-> e0 + 1]
        ELSE [kind |-> "finite", neg |-> d < 0, m |-> m0, e |-> e0]

\* the float product t * k for an integer 0 <= k <= 255: inf * 0 is a NaN,
\* inf * k is infinite, else |product| = q / 2^sh, rounded to 24
\* significant bits
FloatMul(t, k) ==
    IF t.kind = "inf"
    THEN [kind |-> IF k = 0 THEN "nan" ELSE "inf", neg |-> FALSE,
          q |-> 0, sh |-> 0]
    ELSE IF k = 0 THEN [kind |-> "finite", neg |-> t.neg, q |-> 0, sh |-> 0]
    ELSE LET mh == t.m \div 4096
             ml == t.m % 4096
             hi == k * mh + ((k * ml) \div 4096)
             lo == (k * ml) % 4096
             nb == BitLen(hi) - 12
             q0 == hi * (2 ^ (12 - nb)) + (lo \div (2 ^ nb))
             r  == lo % (2 ^ nb)
             up == nb > 0 /\ (r > 2 ^ (nb - 1)
                              \/ (r = 2 ^ (nb - 1) /\ q0 % 2 = 1))
         IN  [kind |-> "finite", neg |-> t.neg,
              q |-> IF up THEN q0 + 1 ELSE q0, sh |-> 23 - nb - t.e]

\* (mutant) round() is left out: the conversion to int drops the fraction
RoundHalfAwayDropped(x) ==
    IF x.kind # "finite" THEN [kind |-> x.kind, n |-> 0]
    ELSE LET mag == x.q \div (2 ^ x.sh)
         IN  [kind |-> "finite", n |-> IF x.neg THEN 0 - mag ELSE mag]

\* round(x): to the nearest integer, halfway cases away from zero; a NaN or
\* an infinity stays what it is. The result is the float of integer value n
RoundHalfAway(x) ==
    IF x.kind # "finite" THEN [kind |-> x.kind, n |-> 0]
    ELSE LET scale == 2 ^ x.sh
             mag == (x.q \div scale)
                    + (IF 2 * (x.q % scale) >= scale THEN 1 ELSE 0)
         IN  [kind |-> "finite", n |-> IF x.neg THEN 0 - mag ELSE mag]

\* the integer part of x, the fraction discarded (float to integer type)
TruncToZero(x) ==
    IF x.kind # "finite" THEN [kind |-> x.kind, n |-> 0]
    ELSE LET mag == x.q \div (2 ^ x.sh)
         IN  [kind |-> "finite", n |-> IF x.neg THEN 0 - mag ELSE mag]

\* (mutant) source_min is not subtracted
OffsetUnsubtracted(i, smin) == Max2(0, i)

\* max(0, i - source_min)
Offset(i, smin) == Max2(0, i - smin)

\* (uint8_t) of an int: modulo 2^8
ToByte(n) == n % Bins

\* what the build makes of an operation the language leaves undefined:
\* nan / inf are the int a NaN / an infinity converts to, wrap says whether
\* an out-of-range negative float keeps its low byte or saturates to 0 when
\* converted to uint8_t, strict whether min(255.0, NaN) is 255.0 (image.cpp
\* is compiled with Ofast, which assumes there is no NaN)
UBOutcomes ==
    [nan : {IntMin, 0}, inf : {IntMin, IntMax}, wrap : BOOLEAN,
     strict : BOOLEAN]

\* (int) of the float r; undefined for a NaN and for an infinity
FloatToInt(r, ub) ==
    IF r.kind = "nan" THEN ub.nan
    ELSE IF r.kind = "inf" THEN ub.inf
    ELSE r.n

\* autocontrast.cpp, the float converted to int in
\*   mapping[i] = (uint8_t) min(255, (int) round(tmp * max(0, i - source_min)))
MappingFloatAutocontrast(t, k) == RoundHalfAway(FloatMul(t, k))

\* (mutant) the upper clamp is one too low: min(254, ...)
MappingByteClampLow(r, ub) ==
    ToByte(Min2(MaxValue - 1, FloatToInt(r, ub)))

\* autocontrast.cpp: (uint8_t) min(255, (int) r)
MappingByteAutocontrast(r, ub) == ToByte(Min2(MaxValue, FloatToInt(r, ub)))

\* image.cpp, the float converted to uint8_t in
\*   mapping[i] = min((float) 255.0, max((float) 0.0, i - s_min) * tmp)
\* (its integer part: what the conversion keeps)
MappingFloatImage(t, k) == TruncToZero(FloatMul(t, k))

\* image.cpp: min((float) 255.0, x) converted to uint8_t; undefined for a
\* NaN and for a value below 0
MappingByteImage(r, ub) ==
    IF r.kind = "inf" THEN MaxValue
    ELSE IF r.kind = "nan"
    THEN (IF ub.strict THEN MaxValue ELSE ToByte(Min2(MaxValue, ub.nan)))
    ELSE IF r.n > MaxValue THEN MaxValue
    ELSE IF r.n >= 0 THEN r.n
    ELSE IF ub.wrap THEN ToByte(r.n) ELSE 0

\* float tmp = ...; for (int i = 0; i < 256; ++i): the float each entry is
\* converted from
MappingFloats(drv, smin, smax) ==
    LET t == FloatTmp(smax - smin)
    IN  [i \in BinIdx |->
           IF drv = "image"
           THEN MappingFloatImage(t, Offset(i, smin))
           ELSE MappingFloatAutocontrast(t, Offset(i, smin))]

\* mapping[i], for all i
MappingBytes(drv, floats, ub) ==
    [i \in BinIdx |->
       IF drv = "image"
       THEN MappingByteImage(floats[i], ub)
       ELSE MappingByteAutocontrast(floats[i], ub)]

\* the floating-point faults of the table construction: the division by
\* zero, and the conversion of a NaN, of an infinity or of a value the
\* target type cannot hold
MappingFaults(drv, smin, smax, floats) ==
    (IF smax - smin = 0 THEN {"div_by_zero"} ELSE {})
    \cup
    (IF \E i \in BinIdx :
           LET r == floats[i]
           IN  \/ r.kind = "nan"
               \/ r.kind = "inf" /\ drv # "image"
               \/ r.kind = "finite" /\ drv = "image" /\ r.n < 0
     THEN {"invalid_conversion"} ELSE {})

\* the outcomes to consider: all of them when the construction faults,
\* one (never read) when it does not
UBChoices(faults) ==
    IF faults = {}
    THEN {[nan |-> 0, inf |-> IntMax, wrap |-> TRUE, strict |-> TRUE]}
    ELSE UBOutcomes

\* the whole table, under the outcome ub
BuildMappingTable(drv, smin, smax, ub) ==
    MappingBytes(drv, MappingFloats(drv, smin, smax), ub)

----------------------------------------------------------------------------
(* The pass *)

NoScan == ScanStart(Uninit)

\* main's variables
process ==
    <<argv, nthreads, mpc, exit_status, diag, reported, errors, calls>>

\* no exit status: main has not returned
NoStatus == 0 - 1

\* main's variables during a call of handle_image whose arguments are the
\* inputs of the pass (the command line that led to the call is left out):
\* nothing is printed yet, and THREADS_COUNT is omp_get_max_threads() = t
InCall(t) ==
    /\ argv = <<>>
    /\ nthreads = t
    /\ mpc = "handle_image"
    /\ exit_status = NoStatus
    /\ diag = ""
    /\ reported = 0
    /\ errors = 0
    /\ calls = <<>>

\* number of iterations of the "omp parallel for" that applies the table:
\* colorwise_size in autocontrast.cpp, size in image.cpp
ApplyCount(drv, col, sz) ==
    IF drv = "image" THEN sz ELSE ColorwiseSize(drv, col, sz)

\* The state at the start of the parallel region that counts frequencies:
\* the header was accepted (image.cpp takes P6 only; the image is one row
\* of size pixels), the buffer is read,
\* freq is zeroed and every worker has its block and a zeroed tmp_freq.
Init ==
    /\ driver \in {"autocontrast", "image"}
    /\ colored \in BOOLEAN
    /\ driver = "image" => colored
    /\ size \in 0 .. MaxBytes
    /\ width = size
    /\ height = 1
    /\ ColorwiseSize(driver, colored, size) <= MaxBytes
    /\ coeff \in Coeffs
    /\ THREADS_COUNT \in 1 .. MaxThreads
    /\ image0 \in [0 .. (ColorwiseSize(driver, colored, size) - 1) -> Samples]
    /\ image = image0
    /\ freq = ZeroBins
    /\ tmp_freq = [w \in 0 .. (THREADS_COUNT - 1) |-> ZeroBins]
    /\ pixel_index =
         [w \in 0 .. (THREADS_COUNT - 1) |->
            ThreadBlockSize(ColorwiseSize(driver, colored, size),
                            THREADS_COUNT) * w]
    /\ wpc = [w \in 0 .. (THREADS_COUNT - 1) |-> "count"]
    /\ lock = NoWorker
    /\ pc = "frequencies"
    /\ source_min = Uninit
    /\ source_max = Uninit
    /\ scans = [min |-> NoScan, max |-> NoScan]
    /\ mapping = <<>>
    /\ fp_fault = {}
    /\ todo = {}
    /\ InCall(THREADS_COUNT)

inputs ==
    <<driver, width, height, colored, size, coeff, THREADS_COUNT, image0>>

\* one iteration of a worker's counting loop: ++tmp_freq[image[pixel_index]]
Count(w) ==
    /\ pc = "frequencies"
    /\ wpc[w] = "count"
    /\ pixel_index[w] < BlockEnd(w)
    /\ tmp_freq' = [tmp_freq EXCEPT ![w][image[pixel_index[w]]] = @ + 1]
    /\ pixel_index' = [pixel_index EXCEPT ![w] = @ + 1]
    /\ UNCHANGED <<process, inputs, image, freq, wpc, lock, pc, source_min,
                   source_max, scans, mapping, fp_fault, todo>>

\* (mutant) the merge is not in a critical region: a worker whose counting
\* loop has ended starts to merge at once
EnterCriticalUnguarded(w) ==
    /\ pc = "frequencies"
    /\ wpc[w] = "count"
    /\ pixel_index[w] >= BlockEnd(w)
    /\ lock' = w
    /\ wpc' = [wpc EXCEPT ![w] = "merge"]
    /\ UNCHANGED <<process, inputs, image, freq, tmp_freq, pixel_index, pc,
                   source_min, source_max, scans, mapping, fp_fault, todo>>

\* a worker whose counting loop has ended enters "#pragma omp critical"
EnterCritical(w) ==
    /\ pc = "frequencies"
    /\ wpc[w] = "count"
    /\ pixel_index[w] >= BlockEnd(w)
    /\ lock = NoWorker
    /\ lock' = w
    /\ wpc' = [wpc EXCEPT ![w] = "merge"]
    /\ UNCHANGED <<process, inputs, image, freq, tmp_freq, pixel_index, pc,
                   source_min, source_max, scans, mapping, fp_fault, todo>>

\* the worker in the critical region adds its table to freq and leaves
Merge(w) ==
    /\ pc = "frequencies"
    /\ wpc[w] = "merge"
    /\ freq' = MergeBins(freq, tmp_freq[w])
    /\ lock' = NoWorker
    /\ wpc' = [wpc EXCEPT ![w] = "done"]
    /\ UNCHANGED <<process, inputs, image, tmp_freq, pixel_index, pc,
                   source_min, source_max, scans, mapping, fp_fault, todo>>

\* (mutant) the parallel region has no join: the single-threaded loop runs
\* while workers are still counting or merging
RemainderEarly ==
    /\ pc = "frequencies"
    /\ freq' = RemainderLoop(freq, image,
                             RemainderStart(colorwise_size, THREADS_COUNT),
                             colorwise_size, RemainderReps(driver))
    /\ pc' = "borders"
    /\ UNCHANGED <<process, inputs, image, tmp_freq, pixel_index, wpc, lock,
                   source_min, source_max, scans, mapping, fp_fault, todo>>

\* the parallel region has ended; the single-threaded loop counts the tail
Remainder ==
    /\ pc = "frequencies"
    /\ \A w \in Workers : wpc[w] = "done"
    /\ freq' = RemainderLoop(freq, image,
                             RemainderStart(colorwise_size, THREADS_COUNT),
                             colorwise_size, RemainderReps(driver))
    /\ pc' = "borders"
    /\ UNCHANGED <<process, inputs, image, tmp_freq, pixel_index, wpc, lock,
                   source_min, source_max, scans, mapping, fp_fault, todo>>

\* the two border scans
Borders ==
    /\ pc = "borders"
    /\ LET need == NeededBorders(coeff, size)
           smin == ScanMin(driver, freq, need)
           smax == ScanMax(driver, freq, need)
       IN  /\ scans' = [min |-> smin, max |-> smax]
           /\ source_min' = smin.v
           /\ source_max' = smax.v
    /\ pc' = "mapping"
    /\ UNCHANGED <<process, inputs, image, freq, tmp_freq, pixel_index, wpc,
                   lock, mapping, fp_fault, todo>>

\* the remap table is built, and the "omp parallel for" starts
BuildMapping ==
    /\ pc = "mapping"
    /\ LET floats == MappingFloats(driver, source_min, source_max)
           faults == MappingFaults(driver, source_min, source_max, floats)
       IN  /\ \E ub \in UBChoices(faults) :
                 mapping' = MappingBytes(driver, floats, ub)
           /\ fp_fault' = faults
    /\ todo' = 0 .. (ApplyCount(driver, colored, size) - 1)
    /\ pc' = "apply"
    /\ UNCHANGED <<process, inputs, image, freq, tmp_freq, pixel_index, wpc,
                   lock, source_min, source_max, scans>>

\* (mutant) the iteration also stores the sample into the table
ApplyWritesTable(i) ==
    /\ pc = "apply"
    /\ i \in todo
    /\ image' = [image EXCEPT ![i] = mapping[image[i]]]
    /\ mapping' = [mapping EXCEPT ![image[i]] = image[i]]
    /\ todo' = todo \ {i}
    /\ UNCHANGED <<process, inputs, freq, tmp_freq, pixel_index, wpc, lock,
                   pc, source_min, source_max, scans, fp_fault>>

\* iteration i of the "omp parallel for", executed by whichever worker the
\* runtime gives it to: image[pixel_index] = mapping[image[pixel_index]]
Apply(i) ==
    /\ pc = "apply"
    /\ i \in todo
    /\ image' = [image EXCEPT ![i] = mapping[image[i]]]
    /\ todo' = todo \ {i}
    /\ UNCHANGED <<process, inputs, freq, tmp_freq, pixel_index, wpc, lock,
                   pc, source_min, source_max, scans, mapping, fp_fault>>

\* every iteration has been executed: the loop's join, the pass is over
Finish ==
    /\ pc = "apply"
    /\ todo = {}
    /\ pc' = "done"
    /\ UNCHANGED <<process, inputs, image, freq, tmp_freq, pixel_index, wpc,
                   lock, source_min, source_max, scans, mapping, fp_fault,
                   todo>>

Next ==
    \/ \E w \in Workers : Count(w)
    \/ \E w \in Workers : EnterCritical(w)
    \/ \E w \in Workers : Merge(w)
    \/ Remainder
    \/ Borders
    \/ BuildMapping
    \/ \E i \in todo : Apply(i)
    \/ Finish

Spec == Init /\ [][Next]_vars

----------------------------------------------------------------------------
(* main of autocontrast.cpp and the file handling of handle_image *)

\* bound: the largest default of omp_get_max_threads()
MaxDefaultThreads == 2

argc == Cardinality(DOMAIN argv)

Digits == <<"0", "1", "2", "3", "4", "5", "6", "7", "8", "9">>

IsDigit(ch) == \E i \in 1 .. 10 : Digits[i] = ch

DigitValue(ch) == (CHOOSE i \in 1 .. 10 : Digits[i] = ch) - 1

RECURSIVE DigitPrefix(_, _)
\* number of digits at the start of s, after its first k characters
DigitPrefix(s, k) ==
    IF k < Len(s) /\ IsDigit(s[k + 1]) THEN DigitPrefix(s, k + 1) ELSE k

RECURSIVE DigitsValue(_, _)
\* the number written by the first k characters of s, all digits
DigitsValue(s, k) ==
    IF k = 0 THEN 0 ELSE 10 * DigitsValue(s, k - 1) + DigitValue(s[k])

\* istringstream ss(s); ss >> x: the extraction fails when s does not
\* start with a digit, and ss.eof() holds after it when the digits run to
\* the end of s (strings of digits and of other, non-blank characters)
ParseNumber(s) ==
    LET k == DigitPrefix(s, 0)
    IN  [ok |-> k > 0, value |-> DigitsValue(s, k), eof |-> k = Len(s)]

\* the strings tried as argv[1] (the worker count)
ThreadArgs == {<<"1">>, <<"2">>, <<"x">>, <<"2", "x">>, <<>>}

\* the strings tried as argv[4] (the coefficient)
CoeffArgs == {<<"0">>, <<"1">>, <<"x">>, <<"0", "x">>}

\* the command lines tried: argv[0..argc-1] with 1 <= argc <= 5
CommandLines ==
    {[i \in 0 .. 4 |->
        CASE i = 0 -> <<"a">>
          [] i = 1 -> t
          [] i = 2 -> <<"i">>
          [] i = 3 -> <<"o">>
          [] OTHER -> c] : t \in ThreadArgs, c \in CoeffArgs}
    \cup {[i \in 0 .. (n - 1) |->
             CASE i = 0 -> <<"a">>
               [] i = 1 -> t
               [] i = 2 -> <<"i">>
               [] OTHER -> <<"o">>] : t \in ThreadArgs, n \in 1 .. 4}

\* 0.01f cut to a multiple of 1 / CoeffDen: the buffers tried here have
\* fewer than 100 pixels, so c * size lies strictly between 0 and 1 either
\* way and compares alike with every count
CoeffHundredth == CoeffDen \div 100

\* the calls of the branch without arguments, in order: input path and coeff
BatchList ==
    <<[path |-> <<"images/low_contrast.small.pnm">>,
       coeff |-> CoeffHundredth],
      [path |-> <<"images/low_contrast.large.pnm">>,
       coeff |-> CoeffHundredth],
      [path |-> <<"images/rgb.pnm">>, coeff |-> 0]>>
    \o [k \in 1 .. 12 |->
          [path |-> <<"images/picTest", IF k <= 8 THEN k - 1 ELSE k,
                      ".pnm">>,
           coeff |-> 0]]

\* what fscanf(input, "%c%c %d %d %d ", ...) makes of the files tried:
\* the number of items assigned, the two characters, width and height
Headers ==
    {[items |-> 5, first |-> "P", second |-> "5", width |-> 2, height |-> 1],
     [items |-> 5, first |-> "P", second |-> "6", width |-> 1, height |-> 1],
     [items |-> 5, first |-> "P", second |-> "7", width |-> 1, height |-> 1],
     [items |-> 5, first |-> "X", second |-> "5", width |-> 1, height |-> 1],
     [items |-> 2, first |-> "P", second |-> "5", width |-> 0, height |-> 0]}

\* the samples fread stores for a buffer of n bytes
FileSamples(n) == [i \in 0 .. (n - 1) |-> IF i = 0 THEN 0 ELSE MaxValue]

\* the locals of handle_image do not exist outside a call
NoLocals ==
    /\ width' = 0
    /\ height' = 0
    /\ colored' = FALSE
    /\ size' = 0
    /\ coeff' = 0
    /\ THREADS_COUNT' = nthreads
    /\ image0' = <<>>
    /\ image' = <<>>
    /\ freq' = ZeroBins
    /\ tmp_freq' = <<>>
    /\ pixel_index' = <<>>
    /\ wpc' = <<>>
    /\ lock' = NoWorker
    /\ source_min' = Uninit
    /\ source_max' = Uninit
    /\ scans' = [min |-> NoScan, max |-> NoScan]
    /\ mapping' = <<>>
    /\ fp_fault' = {}
    /\ todo' = {}

\* the state before main runs
InitMain ==
    /\ driver = "autocontrast"
    /\ argv \in CommandLines
    /\ nthreads \in 1 .. MaxDefaultThreads
    /\ mpc = "start"
    /\ exit_status = NoStatus
    /\ diag = ""
    /\ reported = 0
    /\ errors = 0
    /\ calls = <<>>
    /\ pc = "idle"
    /\ width = 0
    /\ height = 0
    /\ colored = FALSE
    /\ size = 0
    /\ coeff = 0
    /\ THREADS_COUNT = nthreads
    /\ image0 = <<>>
    /\ image = <<>>
    /\ freq = ZeroBins
    /\ tmp_freq = <<>>
    /\ pixel_index = <<>>
    /\ wpc = <<>>
    /\ lock = NoWorker
    /\ source_min = Uninit
    /\ source_max = Uninit
    /\ scans = [min |-> NoScan, max |-> NoScan]
    /\ mapping = <<>>
    /\ fp_fault = {}
    /\ todo = {}

passvars ==
    <<width, height, colored, size, coeff, THREADS_COUNT, image0, image,
      freq, tmp_freq, pixel_index, wpc, lock, source_min, source_max, scans, mapping,
      fp_fault, todo>>

\* cout << msg << endl; return 1;
ExitWithError(msg) ==
    /\ diag' = msg
    /\ reported' = reported + 1
    /\ exit_status' = 1
    /\ mpc' = "exited"
    /\ UNCHANGED <<driver, argv, nthreads, errors, calls, pc, passvars>>

\* handle_image(path, ..., c) is entered with t = omp_get_max_threads()
CallHandleImage(path, c, t) ==
    /\ mpc' = "handle_image"
    /\ calls' = Append(calls, path)
    /\ coeff' = c
    /\ THREADS_COUNT' = t
    /\ pc' = "open"
    /\ UNCHANGED <<driver, argv, exit_status, diag, reported, errors,
                   width, height, colored, size, image0, image, freq, tmp_freq,
                   pixel_index, wpc, lock, source_min, source_max, scans,
                   mapping, fp_fault, todo>>

\* main with arguments: the checks, omp_set_num_threads and the call
ParseArguments ==
    /\ mpc = "start"
    /\ argc > 1
    /\ IF argc < 5 THEN ExitWithError("Too few arguments")
       ELSE
       LET threads_count == ParseNumber(argv[1])
           c == ParseNumber(argv[4])
       IN  IF ~threads_count.ok THEN ExitWithError("Invalid number")
           ELSE IF ~threads_count.eof
           THEN ExitWithError("Trailing characters after number")
           ELSE IF ~c.ok THEN ExitWithError("Invalid number")
           ELSE IF ~c.eof
           THEN ExitWithError("Trailing characters after number")
           ELSE /\ nthreads' = threads_count.value
                /\ CallHandleImage(argv[2], c.value * CoeffDen,
                                   threads_count.value)

\* main without arguments: the next call of the list
BatchCall ==
    /\ mpc \in {"start", "returned"}
    /\ argc = 1
    /\ Len(calls) < Len(BatchList)
    /\ CallHandleImage(BatchList[Len(calls) + 1].path,
                       BatchList[Len(calls) + 1].coeff, nthreads)
    /\ UNCHANGED nthreads

\* main reaches its end: the status is 0
MainReturn ==
    /\ mpc = "returned"
    /\ argc > 1 \/ Len(calls) = Len(BatchList)
    /\ exit_status' = 0
    /\ mpc' = "exited"
    /\ UNCHANGED <<driver, argv, nthreads, diag, reported, errors, calls,
                   pc, passvars>>

\* (mutant) a failure ends the process: cout << msg << endl; exit(1);
EarlyReturnExits(msg) ==
    /\ diag' = msg
    /\ reported' = reported + 1
    /\ errors' = errors + 1
    /\ exit_status' = 1
    /\ mpc' = "exited"
    /\ pc' = "idle"
    /\ NoLocals
    /\ UNCHANGED <<driver, argv, nthreads, calls>>

\* cout << msg << endl; return; (from handle_image, back to main)
EarlyReturn(msg) ==
    /\ diag' = msg
    /\ reported' = reported + 1
    /\ errors' = errors + 1
    /\ mpc' = "returned"
    /\ pc' = "idle"
    /\ NoLocals
    /\ UNCHANGED <<driver, argv, nthreads, exit_status, calls>>

\* handle_image goes on to its next step
GoOn(next) ==
    /\ pc' = next
    /\ UNCHANGED <<driver, process, width, height, colored, size, coeff,
                   THREADS_COUNT,
                   image0, image, freq, tmp_freq, pixel_index, wpc, lock,
                   source_min, source_max, scans, mapping, fp_fault, todo>>

\* FILE * input = fopen(input_path.c_str(), "rb"); if (!input) ...
OpenInput ==
    /\ mpc = "handle_image"
    /\ pc = "open"
    /\ \E opened \in BOOLEAN :
          IF opened THEN GoOn("header")
          ELSE EarlyReturn("Error reading input file!")

\* int size = width * height, colorwise_size = (colored ? 3 * size : size)
\* overflows: one of the two products is not an int
SizeOverflows(w, h, col) ==
    IntMulOverflows(w, h) \/ (col /\ IntMulOverflows(3, IntMul(w, h)))

\* what the build makes of a signed overflow, which the language leaves
\* undefined: the product modulo 2^32 (the multiply instruction), or a
\* trap (a build that traps on overflow); one outcome when nothing
\* overflows
OverflowOutcomes(faulty) ==
    IF faulty THEN {"wrap", "trap"} ELSE {"wrap"}

\* the process is ended by a trap
Trap ==
    /\ mpc' = "crashed"
    /\ pc' = "idle"
    /\ NoLocals
    /\ UNCHANGED <<driver, argv, nthreads, exit_status, diag, reported,
                   errors, calls>>

\* fscanf of the header, the check of "P5" / "P6", colored and size, for
\* a file whose header is one of hs
ReadHeaderFrom(hs) ==
    /\ mpc = "handle_image"
    /\ pc = "header"
    /\ \E h \in hs :
          IF h.items # 5 THEN EarlyReturn("PNM file not recognized")
          ELSE IF h.first # "P" \/ (h.second # "5" /\ h.second # "6")
          THEN EarlyReturn("PNM file not recognized: P5 or P6 not found")
          ELSE \E outcome \in OverflowOutcomes(
                       SizeOverflows(h.width, h.height, h.second = "6")) :
                 IF outcome = "trap" THEN Trap
                 ELSE /\ width' = h.width
                      /\ height' = h.height
                      /\ colored' = (h.second = "6")
                      /\ size' = IntMul(h.width, h.height)
                      /\ pc' = "alloc"
                      /\ UNCHANGED <<driver, process, coeff, THREADS_COUNT,
                                     image0, image, freq, tmp_freq,
                                     pixel_index, wpc, lock, source_min,
                                     source_max, scans, mapping, fp_fault,
                                     todo>>

ReadHeader == ReadHeaderFrom(Headers)

\* image = malloc(colorwise_size); if (!image) ...
Allocate ==
    /\ mpc = "handle_image"
    /\ pc = "alloc"
    /\ \E allocated \in BOOLEAN :
          IF allocated THEN GoOn("read")
          ELSE EarlyReturn("Can not allocate memory for this file")

\* fread of the samples, fclose; freq is zeroed and the parallel region
\* starts
ReadSamples ==
    /\ mpc = "handle_image"
    /\ pc = "read"
    /\ image0' = FileSamples(colorwise_size)
    /\ image' = image0'
    /\ freq' = ZeroBins
    /\ tmp_freq' = [w \in Workers |-> ZeroBins]
    /\ pixel_index' = [w \in Workers |-> BlockStart(w)]
    /\ wpc' = [w \in Workers |-> "count"]
    /\ lock' = NoWorker
    /\ pc' = "frequencies"
    /\ UNCHANGED <<driver, process, width, height, colored, size, coeff,
                   THREADS_COUNT,
                   source_min, source_max, scans, mapping, fp_fault, todo>>

\* the output file is opened and written, image is freed, handle_image
\* returns. fopen's result is not checked: when it is NULL, fprintf writes
\* through a null pointer and the process is lost
WriteOutput ==
    /\ mpc = "handle_image"
    /\ pc = "done"
    /\ \E opened \in BOOLEAN :
          mpc' = (IF opened THEN "returned" ELSE "crashed")
    /\ pc' = "idle"
    /\ NoLocals
    /\ UNCHANGED <<driver, argv, nthreads, exit_status, diag, reported,
                   errors, calls>>

NextMain ==
    \/ ParseArguments
    \/ BatchCall
    \/ MainReturn
    \/ OpenInput
    \/ ReadHeader
    \/ Allocate
    \/ ReadSamples
    \/ Next
    \/ WriteOutput

SpecMain == InitMain /\ [][NextMain]_vars

----------------------------------------------------------------------------
(* The sizes handle_image computes from the header, for images of any      *)
(* width and height: a call of handle_image from the header up to the      *)
(* start of the counting loops. The samples are left out (a buffer of 2^31 *)
(* bytes cannot be held): the steps modelled read none of them.            *)

\* widths and heights: small ones, and the ones around which width *
\* height and 3 * size pass INT_MAX (46340^2 < 2^31 < 46341^2,
\* 3 * 26754^2 < 2^31 < 3 * 26755^2)
Dimensions == {1, 2, 3, 1000, 26754, 26755, 46340, 46341, 65536}

\* the accepted headers: "P5" or "P6", width and height positive
LargeHeaders ==
    {[items |-> 5, first |-> "P", second |-> m, width |-> w, height |-> h] :
       m \in {"5", "6"}, w \in Dimensions, h \in Dimensions}

\* handle_image has opened its input
InitSizes ==
    /\ driver = "autocontrast"
    /\ argv = <<>>
    /\ nthreads \in 1 .. MaxThreads
    /\ mpc = "handle_image"
    /\ exit_status = NoStatus
    /\ diag = ""
    /\ reported = 0
    /\ errors = 0
    /\ calls = <<>>
    /\ pc = "header"
    /\ width = 0
    /\ height = 0
    /\ colored = FALSE
    /\ size = 0
    /\ coeff = 0
    /\ THREADS_COUNT = nthreads
    /\ image0 = <<>>
    /\ image = <<>>
    /\ freq = ZeroBins
    /\ tmp_freq = <<>>
    /\ pixel_index = <<>>
    /\ wpc = <<>>
    /\ lock = NoWorker
    /\ source_min = Uninit
    /\ source_max = Uninit
    /\ scans = [min |-> NoScan, max |-> NoScan]
    /\ mapping = <<>>
    /\ fp_fault = {}
    /\ todo = {}

\* thread_block_size, freq zeroed, and the parallel region is entered:
\* every worker has its start, its end and a zeroed tmp_freq
EnterRegion ==
    /\ mpc = "handle_image"
    /\ pc = "read"
    /\ freq' = ZeroBins
    /\ tmp_freq' = [w \in Workers |-> ZeroBins]
    /\ pixel_index' = [w \in Workers |-> BlockStart(w)]
    /\ wpc' = [w \in Workers |-> "count"]
    /\ lock' = NoWorker
    /\ pc' = "frequencies"
    /\ UNCHANGED <<driver, process, width, height, colored, size, coeff,
                   THREADS_COUNT, image0, image, source_min, source_max,
                   scans, mapping, fp_fault, todo>>

NextSizes ==
    \/ ReadHeaderFrom(LargeHeaders)
    \/ Allocate
    \/ EnterRegion

SpecSizes == InitSizes /\ [][NextSizes]_vars

----------------------------------------------------------------------------
(* A second set of inputs: two-sample single-channel images <<a, b>> with  *)
(* a < b, processed by autocontrast.cpp with c = 0 and one worker, so that *)
(* the scans give source_min = a and source_max = b. The pairs cover every *)
(* difference b - a in 1..255, from both ends of the range.                *)

ThresholdPairs ==
    {<<0, d>> : d \in 1 .. MaxValue}
    \cup {<<MaxValue - d, MaxValue>> : d \in 1 .. MaxValue}

InitPairs ==
    /\ driver = "autocontrast"
    /\ width = 2
    /\ height = 1
    /\ colored = FALSE
    /\ size = 2
    /\ coeff = 0
    /\ THREADS_COUNT = 1
    /\ \E ab \in ThresholdPairs : image0 = [i \in 0 .. 1 |-> ab[i + 1]]
    /\ image = image0
    /\ freq = ZeroBins
    /\ tmp_freq = [w \in 0 .. 0 |-> ZeroBins]
    /\ pixel_index = [w \in 0 .. 0 |-> 0]
    /\ wpc = [w \in 0 .. 0 |-> "count"]
    /\ lock = NoWorker
    /\ pc = "frequencies"
    /\ source_min = Uninit
    /\ source_max = Uninit
    /\ scans = [min |-> NoScan, max |-> NoScan]
    /\ mapping = <<>>
    /\ fp_fault = {}
    /\ todo = {}
    /\ InCall(THREADS_COUNT)

SpecPairs == InitPairs /\ [][Next]_vars

----------------------------------------------------------------------------
(* A third set of inputs: single-channel images of 4 samples that take the *)
(* values 10 and 250, processed by autocontrast.cpp with c = 0 and with    *)
(* c = 0.3f, by any number of workers.                                     *)

\* 0.3f: the float nearest to 3/10, as a numerator over CoeffDen
CoeffThreeTenths == (3 * CoeffDen + 5) \div 10

TwoValues == {10, 250}

InitTwoValues ==
    /\ driver = "autocontrast"
    /\ width = 4
    /\ height = 1
    /\ colored = FALSE
    /\ size = 4
    /\ coeff \in {0, CoeffThreeTenths}
    /\ THREADS_COUNT \in 1 .. MaxThreads
    /\ image0 \in [0 .. 3 -> TwoValues]
    /\ image = image0
    /\ freq = ZeroBins
    /\ tmp_freq = [w \in 0 .. (THREADS_COUNT - 1) |-> ZeroBins]
    /\ pixel_index =
         [w \in 0 .. (THREADS_COUNT - 1) |->
            ThreadBlockSize(4, THREADS_COUNT) * w]
    /\ wpc = [w \in 0 .. (THREADS_COUNT - 1) |-> "count"]
    /\ lock = NoWorker
    /\ pc = "frequencies"
    /\ source_min = Uninit
    /\ source_max = Uninit
    /\ scans = [min |-> NoScan, max |-> NoScan]
    /\ mapping = <<>>
    /\ fp_fault = {}
    /\ todo = {}
    /\ InCall(THREADS_COUNT)

SpecTwoValues == InitTwoValues /\ [][Next]_vars

----------------------------------------------------------------------------
(* Properties *)

\* the histogram build (parallel region and remainder loop) is over
HistogramBuilt == pc \in {"borders", "mapping", "apply", "done"}

\* both border scans are over
ScansDone == pc \in {"mapping", "apply", "done"}

\* the remap table is built
TableBuilt == pc \in {"apply", "done"}

\* needed = c * size, as the float the code computes (numerator over CoeffDen)
needed == NeededBorders(coeff, size)

\* count > needed, as numbers
MoreThanNeeded(count) == count * CoeffDen > needed

\* the sample values present in the buffer
Present == {image0[i] : i \in DOMAIN image0}

\* C1: in autocontrast.cpp, for every buffer length N >= 0 and every worker
\* count T >= 1, once the parallel count-and-merge phase and the remainder
\* loop have finished the 256 bins sum to N and bin v holds exactly the
\* number of samples equal to v.
C1_HistogramExact ==
    (driver = "autocontrast" /\ HistogramBuilt) =>
        /\ SumBins(freq, MaxValue) = colorwise_size
        /\ \A v \in BinIdx : freq[v] = CountOf(image0, v)

\* C1 witness: the build has finished for a buffer of 3 samples, not all
\* equal, split among 2 workers (T does not divide N: one tail sample).
C1_Witness ==
    /\ driver = "autocontrast" /\ pc = "borders"
    /\ THREADS_COUNT = 2 /\ colorwise_size = 3
    /\ freq[10] = 1 /\ freq[255] = 2

\* C2: in each of the two drivers, after the Parallel Applier phase every
\* index i in [0, N) holds table[b0[i]], b0 being the buffer before the
\* phase: every sample is remapped exactly once and none is skipped.
C2_EverySampleRemapped ==
    pc = "done" =>
        \A i \in 0 .. (colorwise_size - 1) : image[i] = mapping[image0[i]]

C4_ZeroCoefficient ==
    (driver = "autocontrast" /\ ScansDone /\ coeff = 0 /\ colorwise_size > 0) =>
        /\ source_min \in Present
        /\ \A v \in Present : source_min <= v
        /\ source_max \in Present
        /\ \A v \in Present : v <= source_max

\* C4 witness: c = 0 and 255 is the only value present.
C4_Witness ==
    /\ driver = "autocontrast" /\ pc = "mapping" /\ coeff = 0
    /\ colorwise_size > 0 /\ Present = {MaxValue}
    /\ source_min = MaxValue /\ source_max = MaxValue

\* both thresholds are histogram indices
InRange == source_min \in BinIdx /\ source_max \in BinIdx

\* C5 (as stated): in autocontrast.cpp, for every buffer and every c in
\* [0, 1), the two scans leave source_min <= source_max, both in [0, 255].
C5_ThresholdPairOrdered ==
    (driver = "autocontrast" /\ ScansDone /\ coeff < CoeffDen) =>
        source_min <= source_max /\ InRange

\* C5 (amended): in autocontrast.cpp, for every non-empty buffer of N
\* samples and every c >= 0 whose needed = c * size is less than N / 2, the
\* two scans leave source_min <= source_max, both in [0, 255].
C5_OrderedBelowHalf ==
    (/\ driver = "autocontrast" /\ ScansDone
     /\ colorwise_size > 0
     /\ 2 * needed < colorwise_size * CoeffDen) =>
        source_min <= source_max /\ InRange

\* C5 witness: c > 0 with needed below N / 2, and the two scans stopped on
\* the same bin, one sample excluded on each side of it.
C5_Witness ==
    /\ driver = "autocontrast" /\ pc = "mapping"
    /\ coeff > 0 /\ 2 * needed < colorwise_size * CoeffDen
    /\ source_min = 10 /\ source_max = 10
    /\ scans.min.pref_summ = 1 /\ scans.max.pref_summ = 1

\* C6: when the degenerate window source_max = source_min is reached,
\* building the table divides by no zero and converts no NaN and no
\* infinity: every entry is a defined value.
C6_DegenerateTableDefined ==
    (driver = "autocontrast" /\ TableBuilt /\ source_max = source_min) =>
        fp_fault = {}

\* C7: in autocontrast.cpp, for every threshold pair with
\* 0 <= source_min < source_max <= 255, the table built from it has
\* table[source_min] = 0 and table[source_max] = 255.
C7_EndpointsMapped ==
    (/\ driver = "autocontrast" /\ TableBuilt
     /\ 0 <= source_min /\ source_min < source_max
     /\ source_max <= MaxValue) =>
        mapping[source_min] = 0 /\ mapping[source_max] = MaxValue

\* C7 witness: a table built for a window that does not divide 255 and
\* does not start at 0.
C7_Witness ==
    /\ driver = "autocontrast" /\ pc = "apply"
    /\ source_min = 248 /\ source_max = MaxValue
    /\ mapping[248] = 0 /\ mapping[MaxValue] = MaxValue

\* C8: in autocontrast.cpp, for every threshold pair the scans can produce
\* from some buffer and some c in [0, 1), the table is non-decreasing, its
\* entries below source_min are 0 and its entries above source_max are 255.
C8_TableMonotone ==
    (driver = "autocontrast" /\ TableBuilt /\ coeff < CoeffDen) =>
        /\ \A i \in 0 .. (MaxValue - 1) : mapping[i] <= mapping[i + 1]
        /\ \A i \in BinIdx : i < source_min => mapping[i] = 0
        /\ \A i \in BinIdx : i > source_max => mapping[i] = MaxValue

\* neither scan has read freq outside 0..255
ReadsInBounds ==
    /\ scans.min.rd_lo >= 0 /\ scans.min.rd_hi < Bins
    /\ scans.max.rd_lo >= 0 /\ scans.max.rd_hi < Bins

SingleWorkerOutput(img, n, sz, c, ub) ==
    LET fr == MergeBins(ZeroBins,
                        RemainderLoop(ZeroBins, img, 0,
                                      ThreadBlockSize(n, 1), 1))
        need == NeededBorders(c, sz)
        smin == ScanMin("autocontrast", fr, need).v
        smax == ScanMax("autocontrast", fr, need).v
        table == BuildMappingTable("autocontrast", smin, smax, ub)
    IN  [i \in 0 .. (n - 1) |-> table[img[i]]]

SingleWorkerHistogram(img, n) ==
    MergeBins(ZeroBins,
              RemainderLoop(ZeroBins, img, 0, ThreadBlockSize(n, 1), 1))

\* C11: in autocontrast.cpp the final shared histogram of a buffer is the
\* same for every worker count T >= 1 and every order in which the workers
\* finish counting and merge: it is the histogram the single-worker pass
\* builds.
C11_HistogramDeterministic ==
    (driver = "autocontrast" /\ HistogramBuilt) =>
        freq = SingleWorkerHistogram(image0, colorwise_size)

\* C11 witness: three workers have each counted one sample of a buffer of
\* three different values and merged, in some order.
C11_Witness ==
    /\ driver = "autocontrast" /\ pc = "borders"
    /\ THREADS_COUNT = 3 /\ colorwise_size = 3
    /\ Present = Samples
    /\ \A w \in Workers : wpc[w] = "done" /\ SumBins(tmp_freq[w], MaxValue) = 1
    /\ freq[0] = 1 /\ freq[10] = 1 /\ freq[255] = 1

\* C12: the table built from source_min = 0 and source_max = 255 is the
\* identity (table[i] = i for all i in 0..255), and applying it leaves
\* every sample of the buffer unchanged.
C12_IdentityTable ==
    (source_min = 0 /\ source_max = MaxValue) =>
        /\ TableBuilt => \A i \in BinIdx : mapping[i] = i
        /\ pc = "done" => image = image0

\* C12 witness: autocontrast.cpp has finished a pass over a buffer that
\* holds 0, 10 and 255 with thresholds 0 and 255.
C12_Witness ==
    /\ driver = "autocontrast" /\ pc = "done"
    /\ source_min = 0 /\ source_max = MaxValue
    /\ Present = Samples /\ image = image0

\* lowest and highest sample value present in a non-empty buffer
LowestPresent == CHOOSE a \in Present : \A v \in Present : a <= v

HighestPresent == CHOOSE b \in Present : \A v \in Present : v <= b

\* C13: in autocontrast.cpp a single-channel image whose samples take
\* exactly two values a < b, each with a count strictly greater than
\* c * size, gets source_min = a and source_max = b, and in the output every
\* a-sample is 0 and every b-sample is 255, for any worker count (stated
\* case: [10, 10, 250, 250] with c = 0 and c = 0.3 gives [0, 0, 255, 255]).
C13_TwoValuesStretched ==
    (/\ driver = "autocontrast" /\ ~colored
     /\ Cardinality(Present) = 2
     /\ MoreThanNeeded(CountOf(image0, LowestPresent))
     /\ MoreThanNeeded(CountOf(image0, HighestPresent))) =>
        /\ ScansDone =>
              source_min = LowestPresent /\ source_max = HighestPresent
        /\ pc = "done" =>
              \A i \in DOMAIN image0 :
                  image[i] = (IF image0[i] = LowestPresent THEN 0
                              ELSE MaxValue)

\* C13 witness: the stated case with c = 0.3 and three workers (one tail
\* sample is left to the remainder loop).
C13_Witness ==
    /\ pc = "done" /\ THREADS_COUNT = 3 /\ coeff = CoeffThreeTenths
    /\ image0 = [i \in 0 .. 3 |-> IF i < 2 THEN 10 ELSE 250]
    /\ source_min = 10 /\ source_max = 250
    /\ image = [i \in 0 .. 3 |-> IF i < 2 THEN 0 ELSE MaxValue]

\* the command line has too few arguments, or a worker count or a
\* coefficient that does not parse or has trailing characters
BadArguments ==
    \/ argc < 5
    \/ ~ParseNumber(argv[1]).ok \/ ~ParseNumber(argv[1]).eof
    \/ ~ParseNumber(argv[4]).ok \/ ~ParseNumber(argv[4]).eof

\* the input file could not be opened, or its header was not recognised
BadInput ==
    /\ errors > 0
    /\ diag \in {"Error reading input file!", "PNM file not recognized",
                 "PNM file not recognized: P5 or P6 not found"}

\* C14: autocontrast.cpp run with arguments ends with a non-zero exit
\* status and a diagnostic message when there are too few arguments, when
\* the worker count or the coefficient does not parse or has trailing
\* characters, when the input file cannot be opened and when the header is
\* missing tokens or its magic is not P5 / P6.
C14_ErrorsExitNonZero ==
    (argc > 1 /\ mpc = "exited" /\ (BadArguments \/ BadInput)) =>
        exit_status # 0 /\ diag # ""

\* the input paths of the list, in order
BatchPaths == [k \in 1 .. Len(BatchList) |-> BatchList[k].path]

\* C15: in the run without arguments a failure while handling one image
\* (input not found, malformed header, allocation failure) is reported and
\* does not stop the run: after the call has returned main calls
\* handle_image for the next image of the list, and when main ends every
\* image of the list has been handled, in list order.
C15_BatchContinues ==
    /\ [](argc = 1 =>
            /\ reported = errors
            /\ mpc = "exited" => calls = BatchPaths)
    /\ [][(argc = 1 /\ mpc = "returned" /\ Len(calls) < Len(BatchList)) =>
            /\ mpc' = "handle_image"
            /\ calls' = SubSeq(BatchPaths, 1, Len(calls) + 1)]_vars

\* C15 witness: main has ended after the whole list; three of the calls
\* failed, the last of them on its allocation.
C15_Witness ==
    /\ argc = 1 /\ mpc = "exited"
    /\ errors = 3 /\ reported = 3
    /\ diag = "Can not allocate memory for this file"
    /\ Len(calls) = 15

\* C16: in image.cpp, for any worker count T that does not divide
\* N = 3 * size, the remainder loop adds each tail sample to the shared
\* histogram exactly once: after the build the bins sum to N (and bin v
\* holds the number of samples equal to v).
C16_RemainderCountedOnce ==
    (driver = "image" /\ HistogramBuilt) =>
        /\ SumBins(freq, MaxValue) = colorwise_size
        /\ \A v \in BinIdx : freq[v] = CountOf(image0, v)

\* the workers inside the merge region
Merging == {w \in Workers : wpc[w] = "merge"}

\* C17: during the histogram build at most one worker is inside the merge
\* region, and it holds the lock; freq changes only by the addition of the
\* whole private table of the worker inside the region; a counting step
\* writes the private table of the worker that takes it and nothing else.
C17_MergeExclusive ==
    /\ [](pc = "frequencies" =>
            /\ Cardinality(Merging) <= 1
            /\ \A w \in Workers : (w \in Merging) <=> (lock = w))
    /\ [][(pc = "frequencies" /\ pc' = "frequencies" /\ freq' # freq) =>
            \E w \in Merging :
                /\ lock = w
                /\ freq' = MergeBins(freq, tmp_freq[w])
                /\ tmp_freq' = tmp_freq]_vars
    /\ [][(pc = "frequencies" /\ pixel_index' # pixel_index) =>
            /\ freq' = freq
            /\ \A w \in Workers :
                  pixel_index'[w] = pixel_index[w] =>
                      tmp_freq'[w] = tmp_freq[w]]_vars

\* C17 witness: worker 1 is inside the merge region while worker 0, whose
\* counting loop has ended, waits to enter it and worker 2 has left it.
C17_Witness ==
    /\ pc = "frequencies" /\ THREADS_COUNT = 3 /\ colorwise_size = 3
    /\ wpc[1] = "merge" /\ lock = 1
    /\ wpc[0] = "count" /\ pixel_index[0] >= BlockEnd(0)
    /\ wpc[2] = "done"

\* C18: the phases of a pass run in strict order: the remainder loop starts
\* only after every worker has merged its private table; the histogram is
\* not written once the scans may start; the table is built only after both
\* thresholds are set; the buffer is written only by the Applier, after the
\* table has its 256 entries, and the table is not written while it is
\* applied.
C18_PhasesInOrder ==
    /\ [][(pc = "frequencies" /\ pc' # "frequencies") =>
            /\ pc' = "borders"
            /\ \A w \in Workers : wpc[w] = "done"
            /\ lock = NoWorker]_vars
    /\ [][HistogramBuilt => freq' = freq /\ pc' # "frequencies"]_vars
    /\ [](pc \in {"frequencies", "borders"} =>
            /\ source_min = Uninit /\ source_max = Uninit
            /\ mapping = <<>>)
    /\ [](pc = "mapping" =>
            /\ source_min # Uninit /\ source_max # Uninit
            /\ mapping = <<>>)
    /\ [][mapping' # mapping => pc = "mapping" /\ pc' = "apply"]_vars
    /\ [][image' # image =>
            /\ pc = "apply"
            /\ DOMAIN mapping = BinIdx]_vars

\* C18 witness: a pass with three workers has gone through all its phases
\* and has changed the buffer.
C18_Witness ==
    /\ pc = "done" /\ THREADS_COUNT = 3 /\ colorwise_size = 3
    /\ \A w \in Workers : wpc[w] = "done"
    /\ source_min = 10 /\ source_max = MaxValue
    /\ DOMAIN mapping = BinIdx
    /\ image # image0

\* what autocontrast.cpp computes for the buffer img of n samples of an
\* image of sz pixels with the coefficient c: its histogram (the same for
\* every worker count), its thresholds and the floats of its table
AutocontrastPass(img, n, sz, c) ==
    LET fr == SingleWorkerHistogram(img, n)
        need == NeededBorders(c, sz)
        smin == ScanMin("autocontrast", fr, need).v
        smax == ScanMax("autocontrast", fr, need).v
    IN  [freq |-> fr, source_min |-> smin, source_max |-> smax,
         faults |-> MappingFaults("autocontrast", smin, smax,
                                  MappingFloats("autocontrast", smin, smax))]

\* C19: for every three-channel image, every c and every T, image.cpp
\* computes the histogram, the threshold pair and the remap table that
\* autocontrast.cpp computes.
C19_DriversAgree ==
    (driver = "image" /\ TableBuilt) =>
        LET ref == AutocontrastPass(image0, colorwise_size, size, coeff)
        IN  /\ freq = ref.freq
            /\ source_min = ref.source_min
            /\ source_max = ref.source_max
            /\ \A ub \in UBChoices(ref.faults) :
                  mapping = BuildMappingTable("autocontrast", ref.source_min,
                                              ref.source_max, ub)

\* C20: within a pass the buffer keeps its length N; the histogram build,
\* the remainder loop, the scans and the table construction leave its
\* contents unchanged; only the Applier writes to it, one sample per step,
\* and no step of the Applier writes the table.
C20_BufferFrame ==
    /\ [](DOMAIN image = 0 .. (colorwise_size - 1))
    /\ [][/\ DOMAIN image' = DOMAIN image
          /\ pc # "apply" => image' = image
          /\ pc = "apply" =>
                /\ mapping' = mapping
                /\ Cardinality({i \in DOMAIN image : image'[i] # image[i]})
                     <= 1]_vars

\* C20 witness: the Applier of autocontrast.cpp has rewritten a buffer of
\* three samples, which still has three samples.
C20_Witness ==
    /\ driver = "autocontrast" /\ pc = "done"
    /\ DOMAIN image = 0 .. 2 /\ DOMAIN image0 = 0 .. 2
    /\ \A i \in 0 .. 2 : image0[i] = 10 /\ image[i] # 10

\* the sizes of handle_image are computed
SizesComputed ==
    mpc = "handle_image" /\ pc \in {"alloc", "read", "frequencies"}

\* C21: for every header with positive width and height that the parser
\* accepts, the int computations of size = width * height, of the byte
\* count N = channel_count * size and of each worker's block bounds
\* thread_block_size * (worker_index + 1) do not wrap: N equals the
\* mathematical width * height * channel_count (size is width times height
\* exactly, N is size or 3 times size exactly) and every block lies inside
\* [0, N).
C21_SizesDoNotWrap ==
    (driver = "autocontrast" /\ SizesComputed /\ width > 0 /\ height > 0) =>
        /\ ~SizeOverflows(width, height, colored)
        /\ size \div width = height /\ size % width = 0
        /\ colorwise_size > 0
        /\ IF colored
           THEN colorwise_size \div 3 = size /\ colorwise_size % 3 = 0
           ELSE colorwise_size = size
        /\ pc = "frequencies" =>
              \A w \in Workers :
                 /\ ~IntMulOverflows(thread_block_size, w + 1)
                 /\ 0 <= BlockStart(w)
                 /\ BlockStart(w) <= BlockEnd(w)
                 /\ BlockEnd(w) <= colorwise_size

====
